---- MODULE Spec2Model ----
(***************************************************************************)
(* Model of server/services/python/handwriting_recognition.py: the        *)
(* single-image character recognition pipeline                            *)
(*   recognize_text = get_model -> process_image -> forward -> decode.    *)
(*                                                                         *)
(* Abstractions:                                                           *)
(*  - a string is a sequence of one-character strings;                     *)
(*  - an exception is a record [type, msg], msg being the sequence of the  *)
(*    fragments an f-string concatenates;                                  *)
(*  - an image file is a byte sequence whose first byte is the container   *)
(*    signature and whose remaining bytes are the pixel data; the decoded  *)
(*    picture is a record [size, mode, lo, hi], lo..hi being the range of  *)
(*    its 8-bit intensities;                                               *)
(*  - a tensor is a record [shape, lo, hi, den]: every value lies in       *)
(*    lo/den .. hi/den;                                                    *)
(*  - the randomly initialised parameters are a seed, and the scores they  *)
(*    produce are a nondeterministic choice.                               *)
(***************************************************************************)
EXTENDS Integers, Sequences, FiniteSets, TLC

VARIABLES pc, input, model, image_tensor, output, predicted, result, trace,
          scores, decoded

vars == <<pc, input, model, image_tensor, output, predicted, result, trace,
          scores, decoded>>

\* A local that is not bound yet is the empty sequence, a bound one <<value>>.
Unbound == <<>>

Bound(v) == <<v>>

\* Python's None.
None == [none |-> TRUE]

(***************************************************************************)
(* Bounds of the model.                                                    *)
(***************************************************************************)
MaxLen == 5
MaxSeed == 2
MaxScore == 1

(***************************************************************************)
(* Helpers.                                                                *)
(***************************************************************************)
Range(s) == {s[i] : i \in 1..Len(s)}

Contains(msg, fragment) == \E i \in 1..Len(msg) : msg[i] = fragment

RECURSIVE SeqsUpTo(_, _)
SeqsUpTo(S, n) ==
    IF n = 0 THEN {<<>>}
    ELSE LET shorter == SeqsUpTo(S, n - 1)
         IN  shorter \cup {Append(s, c) : s \in {t \in shorter : Len(t) = n - 1}, c \in S}

(***************************************************************************)
(* base64.b64decode(s) with its default validate=False                     *)
(* (binascii.a2b_base64, non-strict): characters outside the alphabet are  *)
(* discarded, a pad that completes a quad ends the parse, and leftover     *)
(* characters of an incomplete quad raise binascii.Error.                  *)
(***************************************************************************)
B64Table ==
    << "A","B","C","D","E","F","G","H","I","J","K","L","M","N","O","P",
       "Q","R","S","T","U","V","W","X","Y","Z",
       "a","b","c","d","e","f","g","h","i","j","k","l","m","n","o","p",
       "q","r","s","t","u","v","w","x","y","z",
       "0","1","2","3","4","5","6","7","8","9","+","/" >>

B64Pad == "="

B64Chars == Range(B64Table)

IsB64Char(c) == c \in B64Chars

B64Value(c) == (CHOOSE i \in 1..Len(B64Table) : B64Table[i] = c) - 1

Ok(v) == [ok |-> TRUE, value |-> v]

Raise(type, msg) == [ok |-> FALSE, exc |-> [type |-> type, msg |-> msg]]

RECURSIVE a2b_base64(_, _, _, _, _, _, _)
a2b_base64(s, i, quad_pos, leftchar, pads, bin, ndata) ==
    IF i > Len(s) THEN
        IF quad_pos = 0 THEN Ok(bin)
        ELSE IF quad_pos = 1 THEN
            Raise("binascii.Error",
                  << "Invalid base64-encoded string: number of data characters (",
                     ToString(ndata),
                     ") cannot be 1 more than a multiple of 4" >>)
        ELSE Raise("binascii.Error", << "Incorrect padding" >>)
    ELSE LET c == s[i] IN
        IF c = B64Pad THEN
            IF quad_pos >= 2 /\ quad_pos + pads + 1 >= 4 THEN Ok(bin)
            ELSE a2b_base64(s, i + 1, quad_pos, leftchar,
                            IF quad_pos >= 2 THEN pads + 1 ELSE pads, bin, ndata)
        ELSE IF ~IsB64Char(c) THEN
            a2b_base64(s, i + 1, quad_pos, leftchar, pads, bin, ndata)
        ELSE LET v == B64Value(c) IN
            CASE quad_pos = 0 ->
                    a2b_base64(s, i + 1, 1, v, 0, bin, ndata + 1)
              [] quad_pos = 1 ->
                    a2b_base64(s, i + 1, 2, v % 16, 0,
                               Append(bin, leftchar * 4 + v \div 16), ndata + 1)
              [] quad_pos = 2 ->
                    a2b_base64(s, i + 1, 3, v % 4, 0,
                               Append(bin, leftchar * 16 + v \div 4), ndata + 1)
              [] quad_pos = 3 ->
                    a2b_base64(s, i + 1, 0, 0, 0,
                               Append(bin, leftchar * 64 + v), ndata + 1)

b64decode(s) == a2b_base64(s, 1, 0, 0, 0, <<>>, 0)

(***************************************************************************)
(* PIL.Image.open and the lazy pixel load.  The container is identified by *)
(* its signature byte; the pixel data is read when the first transform     *)
(* touches the picture, and a file that holds the signature alone is       *)
(* truncated.                                                              *)
(***************************************************************************)
Magic == 255

Sizes == {1, 28, 200}

Modes == {"1", "L", "RGB", "RGBA"}

PixelLevels == {0, 255}

Pictures ==
    {[size |-> <<w, h>>, mode |-> m, lo |-> r[1], hi |-> r[2]] :
        w \in Sizes, h \in Sizes, m \in Modes,
        r \in {q \in PixelLevels \X PixelLevels : q[1] <= q[2]}}

Bands(mode) == CASE mode = "1" -> 1 [] mode = "L" -> 1 [] mode = "RGB" -> 3 [] mode = "RGBA" -> 4

Image_open(image_data) ==
    IF Len(image_data) >= 1 /\ image_data[1] = Magic
    THEN Ok(image_data)
    ELSE Raise("UnidentifiedImageError", << "cannot identify image file" >>)

Image_load(file, img) ==
    IF Len(file) < 2
    THEN Raise("OSError", << "image file is truncated" >>)
    ELSE Ok(img)

(***************************************************************************)
(* torchvision transforms.                                                 *)
(***************************************************************************)
\* ITU-R 601-2 luma of PIL's convert("L"), in 16-bit fixed point.
Luma(r, g, b) == (r * 19595 + g * 38470 + b * 7471 + 32768) \div 65536

Grayscale(img) ==
    IF Bands(img.mode) = 1
    THEN [img EXCEPT !.mode = "L"]
    ELSE [img EXCEPT !.mode = "L",
                     !.lo = Luma(img.lo, img.lo, img.lo),
                     !.hi = Luma(img.hi, img.hi, img.hi)]

\* Resize(28): the smaller edge becomes 28 and the aspect ratio is kept.
Resize_smaller_edge(img) ==
    LET w == img.size[1]
        h == img.size[2]
    IN  [img EXCEPT !.size = IF w <= h THEN <<28, (28 * h) \div w>>
                                       ELSE <<(28 * w) \div h, 28>>]

\* Resize((28, 28)): both edges are forced; interpolation keeps every value
\* between the smallest and the largest source intensity.
Resize(img) == [img EXCEPT !.size = <<28, 28>>]

\* ToTensor: an 8-bit picture of size (w, h) becomes a C x H x W tensor of
\* its intensities divided by 255.
ToTensor(img) ==
    [shape |-> <<Bands(img.mode), img.size[2], img.size[1]>>,
     lo |-> img.lo, hi |-> img.hi, den |-> 255]

unsqueeze0(t) == [t EXCEPT !.shape = <<1>> \o t.shape]

transform(img) == ToTensor(Resize(Grayscale(img)))

(***************************************************************************)
(* process_image: the try body (lines 39-50) and the except clause.        *)
(***************************************************************************)
process_image_body(base64_image, img) ==
    LET image_data == b64decode(base64_image) IN
    IF ~image_data.ok THEN image_data
    ELSE LET image == Image_open(image_data.value) IN
         IF ~image.ok THEN image
         ELSE LET loaded == Image_load(image.value, img) IN
              IF ~loaded.ok THEN loaded
              ELSE Ok(unsqueeze0(transform(loaded.value)))

\* except clause that returns None in place of raising.
process_image_swallow(base64_image, img) ==
    LET r == process_image_body(base64_image, img) IN
    IF r.ok THEN r ELSE Ok(None)

\* except clause that drops str(e).
process_image_no_cause(base64_image, img) ==
    LET r == process_image_body(base64_image, img) IN
    IF r.ok THEN r
    ELSE Raise("Exception", << "Error processing image" >>)

process_image(base64_image, img) ==
    LET r == process_image_body(base64_image, img) IN
    IF r.ok THEN r
    ELSE Raise("Exception", << "Error processing image: " >> \o r.exc.msg)

(***************************************************************************)
(* HandwritingRecognitionModel: the layers of __init__ and the shapes      *)
(* forward produces.  A shape is the sequence of a tensor's dimensions.    *)
(***************************************************************************)
Conv2d(cin, cout, k, s, p) == [op |-> "Conv2d", cin |-> cin, cout |-> cout, k |-> k, s |-> s, p |-> p]

ReLU == [op |-> "ReLU", cin |-> 0, cout |-> 0, k |-> 0, s |-> 0, p |-> 0]

MaxPool2d(k, s) == [op |-> "MaxPool2d", cin |-> 0, cout |-> 0, k |-> k, s |-> s, p |-> 0]

Linear(cin, cout) == [op |-> "Linear", cin |-> cin, cout |-> cout, k |-> 0, s |-> 0, p |-> 0]

\* The convolutions written without padding=1.
cnn_no_padding ==
    << Conv2d(1, 32, 3, 1, 0), ReLU, MaxPool2d(2, 2),
       Conv2d(32, 64, 3, 1, 0), ReLU, MaxPool2d(2, 2) >>

cnn ==
    << Conv2d(1, 32, 3, 1, 1), ReLU, MaxPool2d(2, 2),
       Conv2d(32, 64, 3, 1, 1), ReLU, MaxPool2d(2, 2) >>

fc == Linear(64 * 7 * 7, 128)

output_layer == Linear(128, 62)

\* The shape a layer gives to an input of shape x, <<>> when it rejects it.
ApplyLayer(layer, x) ==
    CASE layer.op = "Conv2d" ->
            IF Len(x) = 4 /\ x[2] = layer.cin
               /\ x[3] + 2 * layer.p >= layer.k /\ x[4] + 2 * layer.p >= layer.k
            THEN << x[1], layer.cout,
                    (x[3] + 2 * layer.p - layer.k) \div layer.s + 1,
                    (x[4] + 2 * layer.p - layer.k) \div layer.s + 1 >>
            ELSE <<>>
      [] layer.op = "MaxPool2d" ->
            IF Len(x) = 4 /\ x[3] >= layer.k /\ x[4] >= layer.k
            THEN << x[1], x[2],
                    (x[3] - layer.k) \div layer.s + 1,
                    (x[4] - layer.k) \div layer.s + 1 >>
            ELSE <<>>
      [] layer.op = "ReLU" -> x
      [] layer.op = "Linear" ->
            IF Len(x) = 2 /\ x[2] = layer.cin THEN << x[1], layer.cout >> ELSE <<>>

\* x.view(x.size(0), -1)
view_flat(x) == << x[1], x[2] * x[3] * x[4] >>

\* The shapes after each step of a layer sequence, up to the first rejection.
RECURSIVE Sequential(_, _, _, _)
Sequential(layers, i, x, acc) ==
    IF i > Len(layers) THEN [ok |-> TRUE, shape |-> x, shapes |-> acc]
    ELSE LET y == ApplyLayer(layers[i], x) IN
         IF y = <<>> THEN [ok |-> FALSE, shape |-> x, shapes |-> acc]
         ELSE Sequential(layers, i + 1, y, Append(acc, y))

HandwritingRecognitionModel(seed) ==
    [cnn |-> cnn, fc |-> fc, output |-> output_layer, seed |-> seed, training |-> TRUE]

get_model(seed) == [HandwritingRecognitionModel(seed) EXCEPT !.training = FALSE]

ShapeError == Raise("RuntimeError", << "shapes do not match" >>)

\* forward: cnn, view, relu(fc), output.
forward(m, x) ==
    LET c == Sequential(m.cnn, 1, x, <<>>) IN
    IF ~c.ok THEN ShapeError
    ELSE LET flat == view_flat(c.shape)
             d == Sequential(<< m.fc, ReLU, m.output >>, 1, flat, Append(c.shapes, flat))
         IN  IF ~d.ok THEN ShapeError ELSE Ok(d)

\* A row of n scores: v at the indices of P, b elsewhere.
Peaks(n, P, v, b) == [k \in 1..n |-> IF k \in P THEN v ELSE b]

\* The rows forward may produce, the parameters being random: all scores
\* equal, one maximal score at any index, or that score tied with the last.
ScorePatterns(n) == {{}} \cup {{i, n} : i \in 1..n}

(***************************************************************************)
(* The decoder of recognize_text (lines 65-67).                            *)
(***************************************************************************)
characters_lower_first ==
    << "0","1","2","3","4","5","6","7","8","9",
       "a","b","c","d","e","f","g","h","i","j","k","l","m",
       "n","o","p","q","r","s","t","u","v","w","x","y","z",
       "A","B","C","D","E","F","G","H","I","J","K","L","M",
       "N","O","P","Q","R","S","T","U","V","W","X","Y","Z" >>

characters ==
    << "0","1","2","3","4","5","6","7","8","9",
       "A","B","C","D","E","F","G","H","I","J","K","L","M",
       "N","O","P","Q","R","S","T","U","V","W","X","Y","Z",
       "a","b","c","d","e","f","g","h","i","j","k","l","m",
       "n","o","p","q","r","s","t","u","v","w","x","y","z" >>

\* A reduction that keeps the last of several maximal values.
RECURSIVE max_reduce_last(_, _, _)
max_reduce_last(row, lo, hi) ==
    IF lo = hi THEN lo
    ELSE LET mid == (lo + hi) \div 2
             l == max_reduce_last(row, lo, mid)
             r == max_reduce_last(row, mid + 1, hi)
         IN  IF row[r] >= row[l] THEN r ELSE l

torch_max_last(row) == max_reduce_last(row, 1, Len(row)) - 1

\* torch.max(output, 1): the reduction of the row to the index of its
\* maximal value; of two equal values the one at the lower index is kept.
RECURSIVE max_reduce(_, _, _)
max_reduce(row, lo, hi) ==
    IF lo = hi THEN lo
    ELSE LET mid == (lo + hi) \div 2
             l == max_reduce(row, lo, mid)
             r == max_reduce(row, mid + 1, hi)
         IN  IF row[r] > row[l] THEN r ELSE l

\* predicted.item(), counted from 0.
torch_max(row) == max_reduce(row, 1, Len(row)) - 1

\* return str(predicted.item()) in place of the character.
decode_returns_index(row) ==
    LET p == torch_max(row) IN
    IF p < Len(characters)
    THEN Ok([predicted |-> p, recognized_char |-> ToString(p)])
    ELSE Raise("IndexError", << "string index out of range" >>)

decode(row) ==
    LET p == torch_max(row) IN
    IF p < Len(characters)
    THEN Ok([predicted |-> p, recognized_char |-> characters[p + 1]])
    ELSE Raise("IndexError", << "string index out of range" >>)

(***************************************************************************)
(* recognize_text, one action per statement.  trace lists the stages the   *)
(* current call has started.                                               *)
(***************************************************************************)
InputChars == {"/", "=", "!"}

NotBase64 == << "n","o","t","-","b","a","s","e","6","4","!","!" >>

Inputs == SeqsUpTo(InputChars, MaxLen) \cup {NotBase64}

Char(c) == [kind |-> "char", value |-> c]

\* except Exception as e: raise Exception(f"Error recognizing text: {str(e)}")
recognize_except(exc) ==
    [kind |-> "exc", type |-> "Exception", msg |-> << "Error recognizing text: " >> \o exc.msg]

Call ==
    /\ pc = "idle"
    /\ \E s \in Inputs : input' = Bound(s)
    /\ pc' = "get_model"
    /\ trace' = <<>>
    /\ UNCHANGED <<model, image_tensor, output, predicted, result, scores, decoded>>

GetModel ==
    /\ pc = "get_model"
    /\ \E seed \in 1..MaxSeed : model' = Bound(get_model(seed))
    /\ trace' = Append(trace, "construct")
    /\ pc' = "process_image"
    /\ UNCHANGED <<input, image_tensor, output, predicted, result, scores, decoded>>

ProcessImage ==
    /\ pc = "process_image"
    /\ trace' = Append(trace, "normalize")
    /\ \E r \in {process_image(input[1], img) : img \in Pictures} :
          IF r.ok
          THEN /\ image_tensor' = Bound(r.value)
               /\ pc' = "forward"
               /\ UNCHANGED result
          ELSE /\ result' = Bound(recognize_except(r.exc))
               /\ pc' = "raised"
               /\ UNCHANGED image_tensor
    /\ UNCHANGED <<input, model, output, predicted, scores, decoded>>

Forward ==
    /\ pc = "forward"
    /\ trace' = Append(trace, "score")
    /\ LET r == IF image_tensor[1] = None
                THEN Raise("TypeError", << "conv2d() received an invalid combination of arguments" >>)
                ELSE forward(model[1], image_tensor[1].shape)
       IN  IF r.ok
           THEN /\ \E P \in ScorePatterns(r.value.shape[2]) :
                      output' = Bound(Peaks(r.value.shape[2], P, 1, 0))
                /\ pc' = "decode"
                /\ UNCHANGED result
           ELSE /\ result' = Bound(recognize_except(r.exc))
                /\ pc' = "raised"
                /\ UNCHANGED output
    /\ UNCHANGED <<input, model, image_tensor, predicted, scores, decoded>>

Decode ==
    /\ pc = "decode"
    /\ trace' = Append(trace, "decode")
    /\ LET r == decode(output[1]) IN
       IF r.ok
       THEN /\ predicted' = Bound(r.value.predicted)
            /\ result' = Bound(Char(r.value.recognized_char))
            /\ pc' = "returned"
       ELSE /\ result' = Bound(recognize_except(r.exc))
            /\ pc' = "raised"
            /\ UNCHANGED predicted
    /\ UNCHANGED <<input, model, image_tensor, output, scores, decoded>>

\* A return that leaves the classifier in a module-level cache.
Return_cached ==
    /\ pc \in {"returned", "raised"}
    /\ pc' = "idle"
    /\ input' = Unbound /\ image_tensor' = Unbound
    /\ output' = Unbound /\ predicted' = Unbound /\ result' = Unbound
    /\ trace' = <<>>
    /\ UNCHANGED <<model, scores, decoded>>

\* The call ends: the caller takes the result and every local is dropped.
Return ==
    /\ pc \in {"returned", "raised"}
    /\ pc' = "idle"
    /\ input' = Unbound /\ model' = Unbound /\ image_tensor' = Unbound
    /\ output' = Unbound /\ predicted' = Unbound /\ result' = Unbound
    /\ trace' = <<>>
    /\ UNCHANGED <<scores, decoded>>

Init ==
    /\ pc = "idle"
    /\ input = Unbound /\ model = Unbound /\ image_tensor = Unbound
    /\ output = Unbound /\ predicted = Unbound /\ result = Unbound
    /\ trace = <<>>
    /\ scores = Unbound /\ decoded = Unbound

Next == Call \/ GetModel \/ ProcessImage \/ Forward \/ Decode \/ Return

Spec == Init /\ [][Next]_vars

(***************************************************************************)
(* The decoder alone, applied to rows of 61, 62 and 63 scores.             *)
(***************************************************************************)
DecodeLens == {61, 62, 63}

DecodeInputs ==
    {Peaks(n, {i, j}, v, b) :
        n \in DecodeLens, i \in 1..63, j \in 1..63, v \in 0..MaxScore, b \in 0..MaxScore}

InitDecode ==
    /\ pc = "decode"
    /\ scores \in {Bound(row) : row \in DecodeInputs}
    /\ decoded = Unbound
    /\ input = Unbound /\ model = Unbound /\ image_tensor = Unbound
    /\ output = Unbound /\ predicted = Unbound /\ result = Unbound
    /\ trace = <<>>

DecodeRow ==
    /\ pc = "decode"
    /\ decoded' = Bound(decode(scores[1]))
    /\ pc' = "decoded"
    /\ UNCHANGED <<input, model, image_tensor, output, predicted, result, trace, scores>>

NextDecode == DecodeRow

SpecDecode == InitDecode /\ [][NextDecode]_vars

(***************************************************************************)
(* Verification.                                                           *)
(***************************************************************************)
Digits == {"0","1","2","3","4","5","6","7","8","9"}

Uppercase == {"A","B","C","D","E","F","G","H","I","J","K","L","M",
              "N","O","P","Q","R","S","T","U","V","W","X","Y","Z"}

Lowercase == {"a","b","c","d","e","f","g","h","i","j","k","l","m",
              "n","o","p","q","r","s","t","u","v","w","x","y","z"}

Alphabet == Digits \cup Uppercase \cup Lowercase

Stages == << "construct", "normalize", "score", "decode" >>

IsPrefix(s, t) == Len(s) <= Len(t) /\ \A i \in 1..Len(s) : s[i] = t[i]

AnyPicture == CHOOSE img \in Pictures : TRUE

\* Whether the try body of process_image raises on s (no picture is decoded
\* then, so the outcome does not depend on one).
NormalizeFails(s) == ~process_image_body(s, AnyPicture).ok

TrailingPads(s) ==
    IF Len(s) >= 2 /\ s[Len(s)] = B64Pad /\ s[Len(s) - 1] = B64Pad THEN 2
    ELSE IF Len(s) >= 1 /\ s[Len(s)] = B64Pad THEN 1 ELSE 0

\* Well-formed base64 text (RFC 4648): whole quads of alphabet characters,
\* the last one padded with at most two "=".
WellFormedBase64(s) ==
    /\ Len(s) % 4 = 0
    /\ \A i \in 1..(Len(s) - TrailingPads(s)) : s[i] \in B64Chars

Ended == pc \in {"returned", "raised"}

\* C1: a call of recognize_text that returns gives one character of the
\* 62-symbol alphabet, and a call ends only by returning such a character or
\* by raising an exception.
C1_ReturnsAlphabetCharOrRaises ==
    /\ pc = "returned" => result # Unbound /\ result[1].kind = "char"
                          /\ result[1].value \in Alphabet
    /\ pc = "raised" => result # Unbound /\ result[1].kind = "exc"
    /\ result # Unbound => Ended

C1_Witness ==
    pc = "returned" /\ result[1].kind = "char" /\ result[1].value = "7"

\* C2: on a row of 62 scores the decoder returns the character at the index
\* of the maximal score, the lowest such index when several are maximal.
C2_DecodeIsFirstArgmax ==
    (pc = "decoded" /\ Len(scores[1]) = 62) =>
        /\ decoded[1].ok
        /\ LET row == scores[1]
               p == decoded[1].value.predicted + 1
           IN  /\ p \in 1..62
               /\ \A k \in 1..62 : row[k] <= row[p]
               /\ \A k \in 1..(p - 1) : row[k] < row[p]
               /\ decoded[1].value.recognized_char = characters[p]

C2_Witness ==
    /\ pc = "decoded" /\ Len(scores[1]) = 62
    /\ scores[1][5] = scores[1][40] /\ scores[1][5] > scores[1][1]
    /\ decoded[1].ok /\ decoded[1].value.predicted = 4
    /\ decoded[1].value.recognized_char = "4"

\* C3 (as claimed): an input that is malformed base64, or whose bytes are no
\* decodable image, never yields a character: the call raises, and the
\* message carries both the recognition and the image processing context.
C3_MalformedInputAlwaysRaises ==
    (Ended /\ (~WellFormedBase64(input[1]) \/ NormalizeFails(input[1]))) =>
        /\ pc = "raised"
        /\ Contains(result[1].msg, "Error recognizing text: ")
        /\ Contains(result[1].msg, "Error processing image: ")

C6_IndexThirtyFiveIsLowerA ==
    pc = "returned" =>
        /\ predicted[1] = 0 => result[1].value = "0"
        /\ predicted[1] = 10 => result[1].value = "A"
        /\ predicted[1] = 35 => result[1].value = "a"
        /\ predicted[1] = 61 => result[1].value = "z"

\* C6 (amended): the table holds 62 distinct characters, digits at 0..9,
\* uppercase at 10..35, lowercase at 36..61: index 0 decodes to "0", 10 to
\* "A", 35 to "Z", 36 to "a" and 61 to "z".
C6_AlphabetOrder ==
    pc = "returned" =>
        /\ Len(characters) = 62 /\ Cardinality(Range(characters)) = 62
        /\ predicted[1] \in 0..9 => result[1].value \in Digits
        /\ predicted[1] \in 10..35 => result[1].value \in Uppercase
        /\ predicted[1] \in 36..61 => result[1].value \in Lowercase
        /\ predicted[1] = 0 => result[1].value = "0"
        /\ predicted[1] = 10 => result[1].value = "A"
        /\ predicted[1] = 35 => result[1].value = "Z"
        /\ predicted[1] = 36 => result[1].value = "a"
        /\ predicted[1] = 61 => result[1].value = "z"

C6_Witness ==
    pc = "returned" /\ predicted[1] = 36 /\ result[1].value = "a"

\* C7: when process_image fails, the message of the exception recognize_text
\* raises still holds the description of the underlying cause, after the
\* image processing prefix; "not-base64!!" is such an input.
C7_MessageCarriesCause ==
    (Ended /\ NormalizeFails(input[1])) =>
        /\ pc = "raised"
        /\ Contains(result[1].msg, "Error processing image: ")
        /\ LET cause == process_image_body(input[1], AnyPicture).exc.msg
           IN  /\ Len(cause) > 0
               /\ Len(result[1].msg) = Len(cause) + 2
               /\ \A i \in 1..Len(cause) : result[1].msg[i + 2] = cause[i]

C7_Witness ==
    /\ pc = "raised" /\ input[1] = NotBase64
    /\ result[1].msg = << "Error recognizing text: ", "Error processing image: ",
                          "Invalid base64-encoded string: number of data characters (",
                          "9", ") cannot be 1 more than a multiple of 4" >>

\* C8: on a [1, 1, 28, 28] input the layers compose: the convolutions keep
\* 28 and 14, the pools halve to 14 and 7, the channels go 1 -> 32 -> 64, the
\* flattened length is 3136, and the scores are 62.
C8_LayerShapesCompose ==
    (image_tensor # Unbound /\ image_tensor[1].shape = <<1, 1, 28, 28>>) =>
        LET r == forward(model[1], image_tensor[1].shape) IN
        /\ r.ok
        /\ r.value.shapes = << <<1, 32, 28, 28>>, <<1, 32, 28, 28>>, <<1, 32, 14, 14>>,
                               <<1, 64, 14, 14>>, <<1, 64, 14, 14>>, <<1, 64, 7, 7>>,
                               <<1, 3136>>, <<1, 128>>, <<1, 128>>, <<1, 62>> >>
        /\ model[1].fc.cin = 3136
        /\ output # Unbound => Len(output[1]) = 62
        /\ pc = "raised" => "score" \notin Range(trace)

C8_Witness ==
    pc = "decode" /\ output # Unbound /\ Len(output[1]) = 62
    /\ image_tensor[1].shape = <<1, 1, 28, 28>>

\* C9: within a call the stages start in the order construct, normalize,
\* score, decode, each at most once; score starts only with a tensor and
\* decode only with a score row, and after a failed normalize neither runs.
C9_StagesInOrder ==
    /\ IsPrefix(trace, Stages)
    /\ "normalize" \in Range(trace) => model # Unbound
    /\ "score" \in Range(trace) => image_tensor # Unbound /\ ~NormalizeFails(input[1])
    /\ "decode" \in Range(trace) => output # Unbound
    /\ (pc = "raised" /\ NormalizeFails(input[1])) =>
           trace = << "construct", "normalize" >> /\ model # Unbound
    /\ pc = "returned" => trace = Stages

C9_Witness ==
    /\ pc = "raised" /\ NormalizeFails(input[1])
    /\ trace = << "construct", "normalize" >> /\ model # Unbound

====
